---------------------------- MODULE Spec2Model ----------------------------
(***************************************************************************)
(* Model of the UtiliGEE export-and-materialize pipeline:                  *)
(*   core.py      extract_geotiff_from_gee, arr_from_geotiff, save_img     *)
(*   utiligee.py  main                                                     *)
(*                                                                         *)
(* Strings are sequences of tokens; the token "/" is the path separator.   *)
(* A resolved path is a sequence of components, each component a non-empty *)
(* sequence of tokens; the component <<"/">> in first position is the      *)
(* filesystem root and the empty path is the working directory.            *)
(***************************************************************************)
EXTENDS Integers, Sequences, FiniteSets

(***************************************************************************)
(* Bounds of the model.                                                    *)
(***************************************************************************)
\* The ghost counter of status queries saturates here (the loop itself is
\* not bounded: the code has no maximum number of polls).
MaxPolls == 3
\* Region coordinates other than the CLI default are 0 or MaxCoord.
MaxCoord == 1
\* Raster heights and widths are drawn from 1..MaxDim.
MaxDim == 2
\* Band numbers passed to arr_from_geotiff are drawn from 1..MaxBandArg.
MaxBandArg == 4
\* output_dir strings have at most MaxLen tokens.
MaxLen == 4

(***************************************************************************)
(* Program constants.                                                      *)
(***************************************************************************)
\* utiligee.py:20, the default --region, in units of 1e-5 degree (rounded).
DefaultXmin == -7402065
DefaultYmin == 4071754
DefaultXmax == -7396855
DefaultYmax == 4069053
\* core.py:86, dtype=np.uint8: a channel holds 8 bits.
Uint8Bits == 8

Sep == "/"
TifSuffix == ".tif"
RootDir == <<Sep>>
NoRaster == [count |-> 0, height |-> 0, width |-> 0, data |-> <<>>]
NoImage == [height |-> 0, width |-> 0, px |-> <<>>]

Min(a, b) == IF a < b THEN a ELSE b

(***************************************************************************)
(* Paths.                                                                  *)
(***************************************************************************)
\* util.trim_slash_from_path: strips any trailing path separators.
RECURSIVE trim_slash_from_path(_)
trim_slash_from_path(p) ==
    IF p # <<>> /\ p[Len(p)] = Sep
    THEN trim_slash_from_path(SubSeq(p, 1, Len(p) - 1))
    ELSE p

\* The components of a path string: the maximal runs of non-separator tokens
\* (pathlib and the kernel ignore empty components).
RECURSIVE PathParts(_)
PathParts(s) ==
    IF s = <<>> THEN <<>>
    ELSE LET seps == {i \in 1..Len(s) : s[i] = Sep}
         IN  IF seps = {} THEN <<s>>
             ELSE LET i == CHOOSE j \in seps : \A k \in seps : j <= k
                      head == SubSeq(s, 1, i - 1)
                      rest == SubSeq(s, i + 1, Len(s))
                  IN  (IF head = <<>> THEN <<>> ELSE <<head>>) \o PathParts(rest)

\* Path(s): absolute when the string starts with a separator; Path("") is
\* the working directory, the empty path.
Resolve(s) ==
    IF s # <<>> /\ s[1] = Sep THEN <<RootDir>> \o PathParts(s) ELSE PathParts(s)

Prefixes(p) == {SubSeq(p, 1, i) : i \in 0..Len(p)}

Parent(p) == IF p = <<>> THEN <<>> ELSE SubSeq(p, 1, Len(p) - 1)

\* The directories every filesystem state has: the working directory and
\* the root.
BaseDirs == {<<>>, <<RootDir>>}

(***************************************************************************)
(* Filesystem: dirs and files are sets of resolved paths.                  *)
(***************************************************************************)
\* Mutant of Mkdir: without exist_ok, an existing directory is an error.
MkdirNotExistOk(dirs, files, p) ==
    IF p \in dirs \/ \E q \in Prefixes(p) : q \in files
    THEN [err |-> "IOWriteError", dirs |-> dirs]
    ELSE [err |-> "none", dirs |-> dirs \cup Prefixes(p)]

\* Path(p).mkdir(parents=True, exist_ok=True), core.py:114.  An existing
\* directory is accepted; every missing ancestor is created.  When p or one
\* of its ancestors exists as a regular file, os.mkdir raises
\* (FileExistsError / NotADirectoryError) and nothing is created.
Mkdir(dirs, files, p) ==
    IF \E q \in Prefixes(p) : q \in files
    THEN [err |-> "IOWriteError", dirs |-> dirs]
    ELSE [err |-> "none", dirs |-> dirs \cup Prefixes(p)]

\* The formats the image encoder can write.
SupportedFormats == {"png", "jpg"}

\* img_arr.save(fname), core.py:116.  The encoder is chosen from the
\* extension before the file is opened; opening fails on a directory or
\* under a missing parent.
ImageSave(dirs, files, fname, format) ==
    LET target == Resolve(fname)
    IN  IF format \notin SupportedFormats
        THEN [err |-> "UnsupportedFormatError", files |-> files]
        ELSE IF target \in dirs \/ Parent(target) \notin dirs
        THEN [err |-> "IOWriteError", files |-> files]
        ELSE [err |-> "none", files |-> files \cup {target}]

\* Mutant of OutputFileName: output_dir is used as given.
OutputFileNameUntrimmed(output_dir, name, format) ==
    output_dir \o <<Sep, name, ".", format>>

\* core.py:111, the file name save_img hands to the encoder.
OutputFileName(output_dir, name, format) ==
    trim_slash_from_path(output_dir) \o <<Sep, name, ".", format>>

\* save_img, core.py:95-116.
save_img(dirs, files, name, format, output_dir) ==
    LET od == trim_slash_from_path(output_dir)
        fn == OutputFileName(output_dir, name, format)
        mk == Mkdir(dirs, files, Resolve(od))
    IN  IF mk.err # "none"
        THEN [err |-> mk.err, dirs |-> mk.dirs, files |-> files, fname |-> fn]
        ELSE LET sv == ImageSave(mk.dirs, files, fn, format)
             IN  [err |-> sv.err, dirs |-> mk.dirs, files |-> sv.files,
                  fname |-> fn]

(***************************************************************************)
(* Rasters and images.                                                     *)
(***************************************************************************)
\* A raster whose band b holds profile[b] at the first pixel and grows by
\* grad from pixel to pixel in row-major order.
MakeRaster(profile, h, w, grad) ==
    [count  |-> Len(profile),
     height |-> h,
     width  |-> w,
     data   |-> [b \in 1..Len(profile) |->
                   [r \in 1..h |->
                      [c \in 1..w |-> profile[b] + grad * ((r - 1) * w + (c - 1))]]]]

\* The low n bits of the two's complement representation of the integer v:
\* what numpy's cast of an integer array into a narrower unsigned array keeps.
RECURSIVE LowBits(_, _)
LowBits(v, n) ==
    IF n = 0 THEN 0
    ELSE LET bit == IF (v \div 2) * 2 = v THEN 0 ELSE 1
         IN  bit + 2 * LowBits((v - bit) \div 2, n - 1)

\* Mutant of CastUint8: samples are clipped to the 8-bit range.
CastSaturating(v) == IF v < 0 THEN 0 ELSE IF v > 255 THEN 255 ELSE v

\* Assignment of a sample into the np.uint8 array, core.py:86-89.
CastUint8(v) == LowBits(v, Uint8Bits)

\* core.py:78-79: the raster extension is appended when missing.
NormalizeTif(fname) ==
    IF fname # <<>> /\ fname[Len(fname)] = TifSuffix
    THEN fname
    ELSE Append(fname, TifSuffix)

\* Mutant of AssembleRGB: the channels are stored in the order blue, green,
\* red.
AssembleBGR(r, g, b) ==
    [height |-> Len(r),
     width  |-> Len(r[1]),
     px     |-> [y \in 1..Len(r) |->
                   [x \in 1..Len(r[1]) |->
                      <<CastUint8(b[y][x]), CastUint8(g[y][x]), CastUint8(r[y][x])>>]]]

\* core.py:86-89: channel 0 <- r, channel 1 <- g, channel 2 <- b.
AssembleRGB(r, g, b) ==
    [height |-> Len(r),
     width  |-> Len(r[1]),
     px     |-> [y \in 1..Len(r) |->
                   [x \in 1..Len(r[1]) |->
                      <<CastUint8(r[y][x]), CastUint8(g[y][x]), CastUint8(b[y][x])>>]]]

\* arr_from_geotiff, core.py:61-91.  stored is the path of the raster file
\* on local storage and raster its content (NoRaster: no such file).
\* rasterio.open raises when the file is missing, src.read when the band
\* number is not in 1..count.
arr_from_geotiff(stored, raster, fname, r_ch, g_ch, b_ch) ==
    IF raster.count = 0 \/ NormalizeTif(fname) # stored
    THEN [err |-> "RasterOpenError", img |-> NoImage]
    ELSE IF \E k \in {r_ch, g_ch, b_ch} : k \notin 1..raster.count
    THEN [err |-> "RasterOpenError", img |-> NoImage]
    ELSE [err |-> "none",
          img |-> AssembleRGB(raster.data[r_ch], raster.data[g_ch],
                              raster.data[b_ch])]

(***************************************************************************)
(* State.                                                                  *)
(***************************************************************************)
VARIABLES
    pc,               \* position of the running call
    xmin, ymin, xmax, ymax,   \* the region handed to extract_geotiff_from_gee
    taskState,        \* state of the export task at the remote service
    observed,         \* answer of the latest status query ("none": no query)
    queries,          \* number of status queries made (saturates at MaxPolls)
    sleepsSinceQuery, \* sleeps since the latest status query
    submits,          \* number of task.start() calls
    stdout,           \* the notices printed, in order
    error,            \* the exception that ended the invocation ("none")
    stages,           \* the stages started, in order
    stored, raster,   \* the raster file on local storage: path and content
    fname, r_channel, g_channel, b_channel,   \* arguments of arr_from_geotiff
    img,              \* the image arr_from_geotiff returned
    name, format, output_dir,   \* arguments of save_img
    dirs, files,      \* the filesystem
    dirs0, files0,    \* the filesystem before the first save_img
    saved             \* per save_img call: argument, file name and outcome

vars == <<pc, xmin, ymin, xmax, ymax, taskState, observed, queries,
          sleepsSinceQuery, submits, stdout, error, stages, stored, raster,
          fname, r_channel, g_channel, b_channel, img, name, format,
          output_dir, dirs, files, dirs0, files0, saved>>

regionVars == <<xmin, ymin, xmax, ymax>>
remoteVars == <<taskState, observed, queries, sleepsSinceQuery, submits>>
convertArgs == <<stored, raster, fname, r_channel, g_channel, b_channel>>
saveArgs == <<name, format, output_dir, dirs0, files0>>
fsVars == <<dirs, files, saved>>

\* States of the export task in which task.active() answers true.
ActiveStates == {"ACTIVE"}
TerminalStates == {"COMPLETE", "FAILED"}

WorkingNotice == "Working on export task"
CompleteNotice == "Export complete"

(***************************************************************************)
(* The command line run: main of utiligee.py.                              *)
(***************************************************************************)
Desc == "desc"
OutDir == <<"out">>

Coords == {0, MaxCoord}

\* utiligee.py:19-20 and 39: the four numbers of --region.
Regions ==
    {<<DefaultXmin, DefaultYmin, DefaultXmax, DefaultYmax>>}
        \cup (Coords \X Coords \X Coords \X Coords)

\* utiligee.py:50-53: fetching the export to raw/{desc}.tif is not
\* implemented, so the file is there only if something else put it there.
LocalRasterPath == <<"raw", Sep, Desc, TifSuffix>>
LocalRasters ==
    {NoRaster, MakeRaster(<<10, 20, 30>>, 1, 2, 0), MakeRaster(<<10, 20>>, 1, 1, 0)}

\* Filesystems main may start in: no out directory, an out directory, a
\* regular file named out.
MainFilesystems ==
    {[dirs |-> BaseDirs, files |-> {}],
     [dirs |-> BaseDirs \cup {<<OutDir>>}, files |-> {}],
     [dirs |-> BaseDirs, files |-> {<<OutDir>>}]}

Init ==
    /\ pc = "initialize"
    /\ \E reg \in Regions :
          /\ xmin = reg[1] /\ ymin = reg[2] /\ xmax = reg[3] /\ ymax = reg[4]
    /\ taskState = "UNSUBMITTED"
    /\ observed = "none"
    /\ queries = 0
    /\ sleepsSinceQuery = 0
    /\ submits = 0
    /\ stdout = <<>>
    /\ error = "none"
    /\ stages = <<>>
    /\ stored = LocalRasterPath
    /\ raster \in LocalRasters
    \* utiligee.py:53,58: arr_from_geotiff(geotiff_local_path), default bands
    /\ fname = LocalRasterPath
    /\ r_channel = 1 /\ g_channel = 2 /\ b_channel = 3
    /\ img = NoImage
    \* utiligee.py:59: save_img(img_arr, desc), default format and output_dir
    /\ name = Desc
    /\ format = "png"
    /\ output_dir = <<"out", Sep>>
    /\ \E fs \in MainFilesystems :
          /\ dirs = fs.dirs /\ files = fs.files
          /\ dirs0 = fs.dirs /\ files0 = fs.files
    /\ saved = <<>>

\* core.py:30, ee.Initialize(): returns, or raises when the session cannot
\* be set up.
Initialize ==
    /\ pc = "initialize"
    /\ \/ /\ pc' = "build"
          /\ error' = error
       \/ /\ pc' = "aborted"
          /\ error' = "RemoteSubmissionError"
    /\ stages' = stages
    /\ UNCHANGED <<regionVars, remoteVars, stdout, convertArgs, img, saveArgs,
                   fsVars>>

\* core.py:32-51: the rectangle, the filtered collection, the mean image and
\* the export task are composed; the code compares no bound with another.
BuildRequest ==
    /\ pc = "build"
    /\ pc' = "start"
    /\ stages' = Append(stages, "build")
    /\ UNCHANGED <<regionVars, remoteVars, stdout, error, convertArgs, img,
                   saveArgs, fsVars>>

\* Mutant of StartTask: a submission that raises is tried once more.
StartTaskRetrying ==
    /\ pc = "start"
    /\ submits' = submits + 1
    /\ stages' = Append(stages, "submit")
    /\ \/ /\ taskState' = "ACTIVE"
          /\ pc' = "print_working"
          /\ error' = error
       \/ /\ taskState' = taskState
          /\ pc' = IF submits = 0 THEN "start" ELSE "aborted"
          /\ error' = IF submits = 0 THEN error ELSE "RemoteSubmissionError"
    /\ UNCHANGED <<regionVars, observed, queries, sleepsSinceQuery, stdout,
                   convertArgs, img, saveArgs, fsVars>>

\* core.py:52, task.start(): one remote call; it returns with the task
\* active, or raises.
StartTask ==
    /\ pc = "start"
    /\ submits' = submits + 1
    /\ stages' = Append(stages, "submit")
    /\ \/ /\ taskState' = "ACTIVE"
          /\ pc' = "print_working"
          /\ error' = error
       \/ /\ taskState' = taskState
          /\ pc' = "aborted"
          /\ error' = "RemoteSubmissionError"
    /\ UNCHANGED <<regionVars, observed, queries, sleepsSinceQuery, stdout,
                   convertArgs, img, saveArgs, fsVars>>

\* core.py:54
PrintWorking ==
    /\ pc = "print_working"
    /\ stdout' = Append(stdout, WorkingNotice)
    /\ pc' = "poll"
    /\ stages' = Append(stages, "await")
    /\ UNCHANGED <<regionVars, remoteVars, error, convertArgs, img, saveArgs,
                   fsVars>>

\* Mutant of LoopContinues: the loop body never runs, the wait ends after
\* the first status query whatever it answered.
LoopNeverContinues(answer) == FALSE

\* Mutant of LoopContinues: the wait gives up after two status queries.
LoopGivesUp(answer) == answer \in ActiveStates /\ queries < 1

\* core.py:55, the loop condition.
LoopContinues(answer) == answer \in ActiveStates

\* core.py:55, while task.active(): one status query; the loop goes on to
\* sleep when the task is active and ends otherwise.
Poll ==
    /\ pc = "poll"
    /\ observed' = taskState
    /\ queries' = Min(queries + 1, MaxPolls)
    /\ sleepsSinceQuery' = 0
    /\ pc' = IF LoopContinues(taskState) THEN "sleep" ELSE "print_complete"
    /\ UNCHANGED <<regionVars, taskState, submits, stdout, error, stages,
                   convertArgs, img, saveArgs, fsVars>>

\* core.py:56, time.sleep(1)
Sleep ==
    /\ pc = "sleep"
    /\ sleepsSinceQuery' = sleepsSinceQuery + 1
    /\ pc' = "poll"
    /\ UNCHANGED <<regionVars, taskState, observed, queries, submits, stdout,
                   error, stages, convertArgs, img, saveArgs, fsVars>>

\* Mutant of PrintComplete: a task seen FAILED raises instead of being
\* reported complete.
PrintCompleteUnlessFailed ==
    /\ pc = "print_complete"
    /\ stdout' = IF observed = "FAILED" THEN stdout
                 ELSE Append(stdout, CompleteNotice)
    /\ pc' = IF observed = "FAILED" THEN "aborted" ELSE "convert"
    /\ error' = IF observed = "FAILED" THEN "ExportFailedError" ELSE error
    /\ UNCHANGED <<regionVars, remoteVars, stages, convertArgs, img, saveArgs,
                   fsVars>>

\* core.py:57, then the return to main (utiligee.py:47-53).
PrintComplete ==
    /\ pc = "print_complete"
    /\ stdout' = Append(stdout, CompleteNotice)
    /\ pc' = "convert"
    /\ UNCHANGED <<regionVars, remoteVars, error, stages, convertArgs, img,
                   saveArgs, fsVars>>

\* The remote service finishes the export, successfully or not.
RemoteFinish ==
    /\ taskState \in ActiveStates
    /\ taskState' \in TerminalStates
    /\ UNCHANGED <<pc, regionVars, observed, queries, sleepsSinceQuery, submits,
                   stdout, error, stages, convertArgs, img, saveArgs, fsVars>>

\* Mutant of Convert: a failed conversion is swallowed and main goes on to
\* save_img.
ConvertSwallowsError ==
    /\ pc = "convert"
    /\ stages' = Append(stages, "convert")
    /\ LET res == arr_from_geotiff(stored, raster, fname, r_channel, g_channel,
                                   b_channel)
       IN  /\ img' = res.img
           /\ error' = "none"
           /\ pc' = "save"
    /\ UNCHANGED <<regionVars, remoteVars, stdout, convertArgs, saveArgs,
                   fsVars>>

\* utiligee.py:58, img_arr = arr_from_geotiff(geotiff_local_path)
Convert ==
    /\ pc = "convert"
    /\ stages' = Append(stages, "convert")
    /\ LET res == arr_from_geotiff(stored, raster, fname, r_channel, g_channel,
                                   b_channel)
       IN  /\ img' = res.img
           /\ error' = res.err
           /\ pc' = IF res.err = "none" THEN "save" ELSE "aborted"
    /\ UNCHANGED <<regionVars, remoteVars, stdout, convertArgs, saveArgs,
                   fsVars>>

\* utiligee.py:59, save_img(img_arr, desc)
Save ==
    /\ pc = "save"
    /\ stages' = Append(stages, "save")
    /\ LET res == save_img(dirs, files, name, format, output_dir)
       IN  /\ dirs' = res.dirs
           /\ files' = res.files
           /\ saved' = Append(saved, [arg |-> output_dir, fname |-> res.fname,
                                      err |-> res.err])
           /\ error' = res.err
           /\ pc' = IF res.err = "none" THEN "done" ELSE "aborted"
    /\ UNCHANGED <<regionVars, remoteVars, stdout, convertArgs, img, saveArgs>>

Program ==
    \/ Initialize
    \/ BuildRequest
    \/ StartTask
    \/ PrintWorking
    \/ Poll
    \/ Sleep
    \/ PrintComplete
    \/ Convert
    \/ Save

Next == Program \/ RemoteFinish

Spec == Init /\ [][Next]_vars

\* The single thread of the program keeps running while it has a step to
\* take; nothing obliges the remote service to finish the export.
FairSpec == Spec /\ WF_vars(Program)

(***************************************************************************)
(* Properties of the command line run.                                     *)
(***************************************************************************)
Started(stage) == \E i \in DOMAIN stages : stages[i] = stage
Printed(notice) == \E i \in DOMAIN stdout : stdout[i] = notice
LastStage == IF stages = <<>> THEN "none" ELSE stages[Len(stages)]
RegionValid == xmin < xmax /\ ymin < ymax
InLoop == pc \in {"poll", "sleep"}
\* The export wait is over: the loop has ended.
WaitOver == Started("await") /\ ~InLoop
\* task.start() raised.
StartRaised == submits = 1 /\ taskState = "UNSUBMITTED"

\* C1: once the request has been built, a region with xmin < xmax and
\* ymin < ymax has not failed with InvalidRegionError, and a region violating
\* either inequality has failed with InvalidRegionError with no export task
\* started.
C1_BuildChecksRegion ==
    Started("build") =>
        /\ RegionValid => error # "InvalidRegionError"
        /\ ~RegionValid => error = "InvalidRegionError" /\ submits = 0

\* C2: the wait is over, and the completion notice printed, only after a
\* status query answered with a state outside the active set; at least one
\* status query precedes that; every status query but the first is preceded
\* by exactly one sleep since the query before it, and no sleep precedes the
\* first query or follows the last.
C2_ReturnsAfterInactiveObserved ==
    /\ WaitOver \/ Printed(CompleteNotice) =>
          /\ observed \in TerminalStates
          /\ queries >= 1
          /\ sleepsSinceQuery = 0
    /\ pc = "poll" => sleepsSinceQuery = (IF queries = 0 THEN 0 ELSE 1)
    /\ pc = "sleep" => sleepsSinceQuery = 0 /\ observed \in ActiveStates

\* C2 witness: the wait is over after more than one status query.
C2_Witness ==
    Printed(CompleteNotice) /\ queries >= 2 /\ observed \in TerminalStates

\* C3: under fair scheduling of the program, whenever the export task has
\* left the active set while the caller is in the poll loop, the caller
\* eventually leaves the loop and prints the completion notice; and the
\* caller is never past the loop while the export task is still active.
C3_TerminatesIffTaskLeavesActive ==
    /\ (InLoop /\ taskState \in TerminalStates) ~> Printed(CompleteNotice)
    /\ [](WaitOver => taskState \in TerminalStates)

\* C3 witness: the caller polled up to the bound of the counter while the
\* task was active, and left the loop after the task finished.
C3_Witness ==
    WaitOver /\ queries = MaxPolls /\ taskState \in TerminalStates

\* C4: task.start() is called at most once; when it raised, the invocation
\* is aborted with that failure, no status query was made and no notice was
\* printed.
C4_SubmitAtMostOnce ==
    /\ submits <= 1
    /\ StartRaised =>
          /\ pc = "aborted"
          /\ error = "RemoteSubmissionError"
          /\ queries = 0 /\ observed = "none"
          /\ stdout = <<>>

\* C4 witness: the submission raised.
C4_Witness == StartRaised /\ pc = "aborted"

\* The stage at which each failure occurs.
FailedStage ==
    CASE error = "RemoteSubmissionError" -> IF submits = 0 THEN "none" ELSE "submit"
      [] error = "RasterOpenError" -> "convert"
      [] OTHER -> "save"

IsPrefix(s, t) == Len(s) <= Len(t) /\ s = SubSeq(t, 1, Len(s))

\* C8: the stages start only in the order build, submit, await, convert,
\* save; a failure aborts the invocation and the failing stage is the last
\* one started; convert is started only after the export wait is over; save
\* is started only with the image of a successful convert, and when the
\* submission or convert failed no file was created.
C8_FailureAbortsAtItsStage ==
    /\ IsPrefix(stages, <<"build", "submit", "await", "convert", "save">>)
    /\ error # "none" => pc = "aborted" /\ LastStage = FailedStage
    /\ pc = "aborted" => error # "none"
    /\ Started("convert") => Printed(CompleteNotice) /\ WaitOver
    /\ Started("save") => img # NoImage
    /\ error \in {"RemoteSubmissionError", "RasterOpenError"} =>
          /\ ~Started("save")
          /\ saved = <<>>
          /\ files = files0 /\ dirs = dirs0

\* C8 witness: convert failed after a finished export wait.
C8_Witness ==
    error = "RasterOpenError" /\ LastStage = "convert" /\ pc = "aborted"

\* C10: once a status query has answered FAILED, the caller is past the
\* loop; after the step that follows, the completion notice is printed, no
\* failure is raised for the export, and main is at or past the convert stage.
C10_FailedReportedAsComplete ==
    observed = "FAILED" =>
        /\ WaitOver
        /\ pc = "print_complete" => error = "none"
        /\ pc # "print_complete" =>
              /\ Printed(CompleteNotice)
              /\ pc = "convert" \/ Started("convert")
              /\ ~Started("convert") => error = "none"

\* C10 witness: the convert stage has started after a FAILED export.
C10_Witness ==
    observed = "FAILED" /\ Started("convert") /\ Printed(CompleteNotice)

(***************************************************************************)
(* arr_from_geotiff called on its own, with any raster and band numbers.   *)
(***************************************************************************)
BandProfiles ==
    {<<10, 20, 30>>, <<0, 255, 256>>, <<-1, 300, 65535>>, <<-256, -129, 127, 128>>,
     <<10, 20>>}

ConvertRasters ==
    {NoRaster} \cup
    {MakeRaster(prof, h, w, grad) :
        prof \in BandProfiles, h \in 1..MaxDim, w \in 1..MaxDim, grad \in {0, 1}}

RasterPath == <<"r", TifSuffix>>

InitConvert ==
    /\ pc = "call_convert"
    /\ xmin = 0 /\ ymin = 0 /\ xmax = 0 /\ ymax = 0
    /\ taskState = "UNSUBMITTED"
    /\ observed = "none"
    /\ queries = 0
    /\ sleepsSinceQuery = 0
    /\ submits = 0
    /\ stdout = <<>>
    /\ error = "none"
    /\ stages = <<>>
    /\ stored = RasterPath
    /\ raster \in ConvertRasters
    /\ fname \in {<<"r">>, RasterPath, <<"q">>}
    /\ r_channel \in 1..MaxBandArg
    /\ g_channel \in 1..MaxBandArg
    /\ b_channel \in 1..MaxBandArg
    /\ img = NoImage
    /\ name = Desc
    /\ format = "png"
    /\ output_dir = <<>>
    /\ dirs = BaseDirs /\ files = {}
    /\ dirs0 = BaseDirs /\ files0 = {}
    /\ saved = <<>>

\* A call arr_from_geotiff(fname, r_channel, g_channel, b_channel).
CallArrFromGeotiff ==
    /\ pc = "call_convert"
    /\ LET res == arr_from_geotiff(stored, raster, fname, r_channel, g_channel,
                                   b_channel)
       IN  /\ img' = res.img
           /\ error' = res.err
           /\ pc' = IF res.err = "none" THEN "converted" ELSE "convert_raised"
    /\ UNCHANGED <<regionVars, remoteVars, stdout, stages, convertArgs,
                   saveArgs, fsVars>>

NextConvert == CallArrFromGeotiff

SpecConvert == InitConvert /\ [][NextConvert]_vars

Pixels == {<<y, x>> : y \in 1..raster.height, x \in 1..raster.width}
Sample(band, p) == raster.data[band][p[1]][p[2]]
Channel(k, p) == img.px[p[1]][p[2]][k + 1]
BandOf(k) == <<r_channel, g_channel, b_channel>>[k + 1]
BandsInRange == \A k \in 0..2 : BandOf(k) \in 1..raster.count
FileFound == raster.count > 0 /\ fname \in {<<"r">>, RasterPath}
IsConstantRaster(prof) ==
    /\ raster.count = Len(prof)
    /\ \A b \in 1..Len(prof) : \A p \in Pixels : Sample(b, p) = prof[b]

\* C5 as stated: at every pixel of the returned image, channel 0 equals the
\* red_band sample, channel 1 the green_band sample and channel 2 the
\* blue_band sample, and the image has the height and width of the source.
C5_ChannelsEqualSamples ==
    pc = "converted" =>
        /\ img.height = raster.height /\ img.width = raster.width
        /\ \A p \in Pixels : \A k \in 0..2 : Channel(k, p) = Sample(BandOf(k), p)

\* C5 amended: for every raster of integer samples found at the path and
\* every choice of band numbers within its band count the call returns an
\* image with the height and width of the source in which, at every pixel,
\* channel 0, 1, 2 is congruent modulo 256 to the red_band, green_band,
\* blue_band sample and equals it when the sample lies in 0..255; bands
\* valued (10,20,30) give (10,20,30) with band numbers (1,2,3) and
\* (30,10,20) with (3,1,2).
C5_ChannelsFollowBandNumbers ==
    /\ FileFound /\ BandsInRange => pc \in {"call_convert", "converted"}
    /\ pc = "converted" =>
          /\ img.height = raster.height /\ img.width = raster.width
          /\ \A p \in Pixels : \A k \in 0..2 :
                LET v == Sample(BandOf(k), p)
                    c == Channel(k, p)
                IN  /\ (v - c) % 256 = 0
                    /\ v \in 0..255 => c = v
          /\ IsConstantRaster(<<10, 20, 30>>) =>
                /\ <<r_channel, g_channel, b_channel>> = <<1, 2, 3>> =>
                      \A p \in Pixels : img.px[p[1]][p[2]] = <<10, 20, 30>>
                /\ <<r_channel, g_channel, b_channel>> = <<3, 1, 2>> =>
                      \A p \in Pixels : img.px[p[1]][p[2]] = <<30, 10, 20>>

\* C5 witness: bands (10,20,30) read with band numbers (3,1,2).
C5_Witness ==
    /\ pc = "converted"
    /\ IsConstantRaster(<<10, 20, 30>>)
    /\ <<r_channel, g_channel, b_channel>> = <<3, 1, 2>>
    /\ \A p \in Pixels : img.px[p[1]][p[2]] = <<30, 10, 20>>

\* C9: a raster found at the path, read with band numbers within its band
\* count, is never rejected whatever its samples are; every channel value
\* of the returned image lies in 0..255 and is the sample of its band
\* modulo 256, so it equals the sample exactly when the sample is in 0..255.
C9_SamplesWrapModulo256 ==
    /\ FileFound /\ BandsInRange /\ pc # "call_convert" => error = "none"
    /\ pc = "converted" =>
          \A p \in Pixels : \A k \in 0..2 :
              LET v == Sample(BandOf(k), p)
                  c == Channel(k, p)
              IN  /\ c \in 0..255
                  /\ c = v % 256
                  /\ c = v <=> v \in 0..255

\* C9 witness: samples above and below the 8-bit range were converted.
C9_Witness ==
    /\ pc = "converted"
    /\ \E p \in Pixels : Sample(BandOf(0), p) = 300 /\ Channel(0, p) = 44
    /\ \E p \in Pixels : Sample(BandOf(1), p) = -1 /\ Channel(1, p) = 255

(***************************************************************************)
(* save_img called on its own, twice, from any filesystem state.           *)
(***************************************************************************)
DirTokens == {"a", "b", Sep}

RECURSIVE StringsUpTo(_)
StringsUpTo(n) ==
    IF n = 0 THEN {<<>>}
    ELSE LET shorter == StringsUpTo(n - 1)
         IN  shorter \cup {Append(s, t) : s \in shorter, t \in DirTokens}

Slashes(k) == [i \in 1..k |-> Sep]

\* The filesystems in which, of the directories on the way to p, the first
\* k exist, the next one is possibly occupied by a regular file, and the
\* target file is absent, a regular file or a directory.
FilesystemsFor(p, target) ==
    {LET ds == BaseDirs \cup Prefixes(SubSeq(p, 1, k))
         next == SubSeq(p, 1, k + 1)
         blocked == blocker /\ k < Len(p) /\ next \notin ds
         there == k = Len(p)
     IN  [dirs  |-> ds \cup (IF there /\ tstate = "dir" THEN {target} ELSE {}),
          files |-> (IF blocked THEN {next} ELSE {})
                       \cup (IF there /\ tstate = "file" THEN {target} ELSE {})] :
        k \in 0..Len(p), blocker \in BOOLEAN, tstate \in {"absent", "file", "dir"}}

InitSave ==
    /\ pc = "save_first"
    /\ xmin = 0 /\ ymin = 0 /\ xmax = 0 /\ ymax = 0
    /\ taskState = "UNSUBMITTED"
    /\ observed = "none"
    /\ queries = 0
    /\ sleepsSinceQuery = 0
    /\ submits = 0
    /\ stdout = <<>>
    /\ error = "none"
    /\ stages = <<>>
    /\ stored = RasterPath
    /\ raster = NoRaster
    /\ fname = RasterPath
    /\ r_channel = 1 /\ g_channel = 2 /\ b_channel = 3
    /\ img = NoImage
    /\ name = "x"
    /\ format \in {"png", "bin"}
    /\ output_dir \in StringsUpTo(MaxLen)
    /\ \E fs \in FilesystemsFor(Resolve(output_dir),
                                Resolve(output_dir \o <<Sep, name, ".", format>>)) :
          /\ dirs = fs.dirs /\ files = fs.files
          /\ dirs0 = fs.dirs /\ files0 = fs.files
    /\ saved = <<>>

\* save_img(img, name, format, arg)
CallSaveImg(arg) ==
    LET res == save_img(dirs, files, name, format, arg)
    IN  /\ dirs' = res.dirs
        /\ files' = res.files
        /\ saved' = Append(saved, [arg |-> arg, fname |-> res.fname,
                                   err |-> res.err])
        /\ error' = res.err

\* The first call, with output_dir.
SaveFirst ==
    /\ pc = "save_first"
    /\ CallSaveImg(output_dir)
    /\ pc' = "save_again"
    /\ UNCHANGED <<regionVars, remoteVars, stdout, stages, convertArgs, img,
                   saveArgs>>

\* The second call: with output_dir again, with one more trailing
\* separator, or with one trailing separator fewer.
SaveAgain ==
    /\ pc = "save_again"
    /\ \E arg \in {output_dir, Append(output_dir, Sep)} \cup
                   (IF output_dir # <<>> /\ output_dir[Len(output_dir)] = Sep
                    THEN {SubSeq(output_dir, 1, Len(output_dir) - 1)}
                    ELSE {}) :
          CallSaveImg(arg)
    /\ pc' = "saved_twice"
    /\ UNCHANGED <<regionVars, remoteVars, stdout, stages, convertArgs, img,
                   saveArgs>>

NextSave == SaveFirst \/ SaveAgain

SpecSave == InitSave /\ [][NextSave]_vars

\* d carries no trailing separator.
Normalized(d) == d = <<>> \/ d[Len(d)] # Sep
\* s is d followed by separators only.
IsDirWithSlashes(s, d) ==
    \E k \in 0..Len(s) : Len(d) + k = Len(s) /\ s = d \o Slashes(k)
\* The directory strings without trailing separator that an argument may
\* stand for.
Stems(s) == {d \in Prefixes(s) : Normalized(d) /\ IsDirWithSlashes(s, d)}

\* C6: every call of save_img whose output_dir is a directory string d
\* followed by zero or more separators hands the encoder the file name
\* d/name.format; two calls whose output_dir differ only in trailing
\* separators hand it the same file name, and when both succeed the one file
\* at that path is what they wrote.
C6_TrailingSeparatorsIgnored ==
    /\ \A i \in DOMAIN saved : \A d \in Stems(saved[i].arg) :
          /\ saved[i].fname = d \o <<Sep, name, ".", format>>
          /\ saved[i].err = "none" => Resolve(d \o <<Sep, name, ".", format>>) \in files
    /\ pc = "saved_twice" =>
          /\ saved[1].fname = saved[2].fname
          /\ saved[1].err = "none" /\ saved[2].err = "none" =>
                files = files0 \cup {Resolve(saved[1].fname)}

\* C6 witness: two successful calls, one with and one without a trailing
\* separator, wrote the same path.
C6_Witness ==
    /\ pc = "saved_twice"
    /\ saved[1].arg # saved[2].arg
    /\ saved[1].err = "none" /\ saved[2].err = "none"
    /\ saved[1].fname = saved[2].fname

TargetDir == Resolve(output_dir)
TargetFile == Resolve(output_dir \o <<Sep, name, ".", format>>)

\* C7 as stated: from any filesystem state the first call succeeds, every
\* directory on the way to output_dir exists afterwards and the file is
\* present; a second call with the same arguments succeeds too and leaves
\* the same directories and files.
C7_SaveSucceedsFromAnyFilesystem ==
    /\ pc # "save_first" =>
          /\ saved[1].err = "none"
          /\ Prefixes(TargetDir) \subseteq dirs
          /\ TargetFile \in files
    /\ pc = "saved_twice" /\ saved[2].arg = saved[1].arg =>
          /\ saved[2].err = "none"
          /\ dirs = dirs0 \cup Prefixes(TargetDir)
          /\ files = files0 \cup {TargetFile}

\* The filesystem states and formats the amended C7 is about.
Saveable ==
    /\ format \in SupportedFormats
    /\ \A q \in Prefixes(TargetDir) : q \notin files0
    /\ TargetFile \notin dirs0

\* C7 amended: from any filesystem state in which no directory on the way
\* to output_dir is occupied by a regular file and the target file path is
\* not a directory, and with a format the encoder supports, the first call
\* succeeds, creates exactly the missing directories and leaves the file
\* present; a second call with the same arguments succeeds too and leaves
\* the same directories and files.
C7_SaveCreatesDirsAndRepeats ==
    Saveable =>
        /\ pc # "save_first" =>
              /\ saved[1].err = "none"
              /\ dirs = dirs0 \cup Prefixes(TargetDir)
              /\ files = files0 \cup {TargetFile}
        /\ pc = "saved_twice" /\ saved[2].arg = saved[1].arg =>
              saved[2].err = "none"

\* C7 witness: two successful calls with the same nested output_dir, of
\* which no directory existed before.
C7_Witness ==
    /\ pc = "saved_twice"
    /\ saved[2].arg = saved[1].arg
    /\ saved[1].err = "none" /\ saved[2].err = "none"
    /\ Len(TargetDir) >= 2
    /\ dirs0 = BaseDirs
    /\ TargetDir \in dirs /\ TargetFile \in files

=============================================================================
